---- MODULE Spec2Model ----
(*
  Model of the code-block highlighter of markdown_use.go:
    splitByKeywords  - the separator-aware tokenizer,
    classifyToken    - the keyword test,
    isSymbol/isString and splitCodeContent - the span stylist,
    main's restyling pass over the rendered spans.

  A Go string is a sequence of bytes (0..255).  `for _, r := range s`
  decodes it as UTF-8, one rune per iteration (an invalid byte decodes to
  U+FFFD, width 1); string(r) encodes a rune back to UTF-8.
*)
EXTENDS Integers, Sequences, FiniteSets

VARIABLES
    pc,           \* position in the code being run
    content,      \* splitByKeywords: parameter content
    keywords,     \* splitByKeywords: parameter keywords
    pos,          \* splitByKeywords: byte offset (1-based) of the range loop
    token,        \* splitByKeywords: local token
    result,       \* splitByKeywords: local result
    span,         \* splitCodeContent: parameter span
    parts,        \* splitCodeContent: local parts
    segs,         \* splitCodeContent: local styledSpans
    spans,        \* main: spans returned by renderer.Render
    next,         \* main: number of spans the range loop has consumed
    styledSpans   \* main: styledSpans

vars == <<pc, content, keywords, pos, token, result, span, parts, segs,
          spans, next, styledSpans>>

-----------------------------------------------------------------------------
(* Bounds of the model *)

MaxPieces == 3        \* pieces concatenated into a tokenizer input
MaxSpanPieces == 2    \* pieces concatenated into a code span's content
MaxSpans == 3         \* spans handed to main's restyling pass

-----------------------------------------------------------------------------
(* Go strings: UTF-8 decoding (range over a string) and encoding (string(r)) *)

RuneError == 65533      \* utf8.RuneError, U+FFFD

IsCont(b) == b >= 128 /\ b <= 191

\* The rune starting at byte i of s and its width, as `range` decodes it.
DecodeRune(s, i) ==
    LET b0 == s[i]
        n  == Len(s)
        bad == [r |-> RuneError, w |-> 1]
    IN  IF b0 < 128 THEN [r |-> b0, w |-> 1]
        ELSE IF b0 >= 194 /\ b0 <= 223
        THEN IF i + 1 <= n /\ IsCont(s[i+1])
             THEN [r |-> (b0 - 192) * 64 + (s[i+1] - 128), w |-> 2]
             ELSE bad
        ELSE IF b0 >= 224 /\ b0 <= 239
        THEN IF /\ i + 2 <= n
                /\ IsCont(s[i+1]) /\ IsCont(s[i+2])
                /\ (b0 = 224 => s[i+1] >= 160)
                /\ (b0 = 237 => s[i+1] <= 159)
             THEN [r |-> (b0 - 224) * 4096 + (s[i+1] - 128) * 64 + (s[i+2] - 128),
                   w |-> 3]
             ELSE bad
        ELSE IF b0 >= 240 /\ b0 <= 244
        THEN IF /\ i + 3 <= n
                /\ IsCont(s[i+1]) /\ IsCont(s[i+2]) /\ IsCont(s[i+3])
                /\ (b0 = 240 => s[i+1] >= 144)
                /\ (b0 = 244 => s[i+1] <= 143)
             THEN [r |-> (b0 - 240) * 262144 + (s[i+1] - 128) * 4096
                         + (s[i+2] - 128) * 64 + (s[i+3] - 128),
                   w |-> 4]
             ELSE bad
        ELSE bad

\* string(r): the UTF-8 encoding of rune r.
EncodeRune(r) ==
    IF r < 0 \/ r > 1114111 \/ (r >= 55296 /\ r <= 57343)
    THEN <<239, 191, 189>>
    ELSE IF r < 128 THEN <<r>>
    ELSE IF r < 2048 THEN <<192 + (r \div 64), 128 + (r % 64)>>
    ELSE IF r < 65536
    THEN <<224 + (r \div 4096), 128 + ((r \div 64) % 64), 128 + (r % 64)>>
    ELSE <<240 + (r \div 262144), 128 + ((r \div 4096) % 64),
           128 + ((r \div 64) % 64), 128 + (r % 64)>>

RECURSIVE RunesFrom(_, _)
RunesFrom(s, i) ==
    IF i > Len(s) THEN <<>>
    ELSE LET d == DecodeRune(s, i) IN <<d.r>> \o RunesFrom(s, i + d.w)

\* The runes `range s` yields, in order.
Runes(s) == RunesFrom(s, 1)

\* strings.ContainsRune(s, r)
ContainsRune(s, r) == LET rs == Runes(s) IN \E i \in 1..Len(rs) : rs[i] = r

\* strings.HasPrefix(s, p) / strings.HasSuffix(s, p)
HasPrefix(s, p) == Len(s) >= Len(p) /\ SubSeq(s, 1, Len(p)) = p
HasSuffix(s, p) == Len(s) >= Len(p) /\ SubSeq(s, Len(s) - Len(p) + 1, Len(s)) = p

-----------------------------------------------------------------------------
(* String literals of the program, as bytes *)

separators == <<32, 9, 10, 40, 41, 46, 44, 59, 123, 125>>   \* " \t\n().,;{}"
symbols == <<40, 41, 44, 59, 123, 125>>                      \* "(),;{}"
quote == <<34>>                                              \* "\""
codeKeywords == << <<102, 117, 110, 99>>,                    \* "func"
                   <<109, 97, 105, 110>>,                    \* "main"
                   <<80, 114, 105, 110, 116, 108, 110>> >>   \* "Println"
monospace == "monospace"

\* material.NewTheme(): th.Palette.Fg and th.Palette.ContrastBg
PaletteFg == <<0, 0, 0, 255>>
PaletteContrastBg == <<63, 81, 181, 255>>
symbolColor == <<255, 0, 0, 255>>          \* color.NRGBA{0xFF, 0, 0, 0xFF}
stringColor == <<255, 105, 180, 255>>      \* color.NRGBA{0xFF, 0x69, 0xB4, 0xFF}

-----------------------------------------------------------------------------
(* classifyToken, isSymbol, isString *)

\* a keyword test that accepts a token beginning with a keyword
classifyTokenPrefix(tok, kws) ==
    [Text |-> tok, IsKeyword |-> \E i \in 1..Len(kws) : HasPrefix(tok, kws[i])]

classifyToken(tok, kws) ==
    [Text |-> tok, IsKeyword |-> \E i \in 1..Len(kws) : tok = kws[i]]

\* symbol tests over a wrong symbol set: "(),;", "(),;{}." and "(),;{}\""
isSymbolNoBraces(text) == Len(text) = 1 /\ ContainsRune(<<40, 41, 44, 59>>, text[1])
isSymbolWithDot(text) == Len(text) = 1 /\ ContainsRune(symbols \o <<46>>, text[1])
isSymbolOrQuote(text) == Len(text) = 1 /\ ContainsRune(symbols \o quote, text[1])

isSymbol(text) == Len(text) = 1 /\ ContainsRune(symbols, text[1])

\* a string test that rejects a quote between the enclosing quotes
isStringNoInnerQuote(text) ==
    /\ HasPrefix(text, quote) /\ HasSuffix(text, quote)
    /\ \A i \in 2..(Len(text) - 1) : text[i] # 34

isString(text) == HasPrefix(text, quote) /\ HasSuffix(text, quote)

-----------------------------------------------------------------------------
(* splitByKeywords: the body of the range loop and the final flush *)

isSeparator(r) == ContainsRune(separators, r)

\* lines 236-239 and 252-254: flush a non-empty token
flushToken(tok, res, kws) ==
    IF tok # <<>> THEN Append(res, classifyToken(tok, kws)) ELSE res

\* a separator branch that drops the pending token instead of flushing it
emitSeparatorDropToken(tok, res, r, kws) ==
    [token  |-> <<>>,
     result |-> Append(res, [Text |-> EncodeRune(r), IsKeyword |-> FALSE])]

\* lines 234-244: r is a separator
emitSeparator(tok, res, r, kws) ==
    [token  |-> <<>>,
     result |-> Append(flushToken(tok, res, kws),
                       [Text |-> EncodeRune(r), IsKeyword |-> FALSE])]

\* lines 245-248: r is not a separator
accumulate(tok, res, r) == [token |-> tok \o EncodeRune(r), result |-> res]

scanRune(tok, res, r, kws) ==
    IF isSeparator(r) THEN emitSeparator(tok, res, r, kws)
    ELSE accumulate(tok, res, r)

RECURSIVE scanFrom(_, _, _, _, _)
scanFrom(s, i, tok, res, kws) ==
    IF i > Len(s) THEN flushToken(tok, res, kws)
    ELSE LET d  == DecodeRune(s, i)
             st == scanRune(tok, res, d.r, kws)
         IN  scanFrom(s, i + d.w, st.token, st.result, kws)

splitByKeywords(c, kws) == scanFrom(c, 1, <<>>, <<>>, kws)

-----------------------------------------------------------------------------
(* Inputs *)

RECURSIVE PieceStrings(_, _)
PieceStrings(P, n) ==
    IF n = 0 THEN {<<>>}
    ELSE LET prev == PieceStrings(P, n - 1)
         IN  prev \cup {s \o p : s \in prev, p \in P}

\* "func", a, ", space, (, ;, ., and the bytes FF, C3, A9 (C3 A9 is U+00E9)
SplitPieces ==
    { <<102, 117, 110, 99>>, <<97>>, <<34>>, <<32>>, <<40>>, <<59>>, <<46>>,
      <<255>>, <<195>>, <<169>> }

KeywordLists == { codeKeywords, << <<59>>, <<97>> >>, <<>> }

-----------------------------------------------------------------------------
(* Specification SpecSplit: one call of splitByKeywords, one loop iteration
   per step *)

NoSpan == [Content |-> <<>>]

splitDone == pc = "scan" /\ pos > Len(content)

InitSplit ==
    /\ pc = "scan"
    /\ content \in PieceStrings(SplitPieces, MaxPieces)
    /\ keywords \in KeywordLists
    /\ pos = 1
    /\ token = <<>>
    /\ result = <<>>
    /\ span = NoSpan /\ parts = <<>> /\ segs = <<>>
    /\ spans = <<>> /\ next = 0 /\ styledSpans = <<>>

splitFrame == UNCHANGED <<content, keywords, span, parts, segs, spans, next, styledSpans>>

ScanSeparator ==
    /\ pc = "scan" /\ pos <= Len(content)
    /\ LET d == DecodeRune(content, pos)
       IN  /\ isSeparator(d.r)
           /\ LET st == scanRune(token, result, d.r, keywords)
              IN  token' = st.token /\ result' = st.result
           /\ pos' = pos + d.w
    /\ pc' = pc
    /\ splitFrame

ScanAccumulate ==
    /\ pc = "scan" /\ pos <= Len(content)
    /\ LET d == DecodeRune(content, pos)
       IN  /\ ~isSeparator(d.r)
           /\ LET st == scanRune(token, result, d.r, keywords)
              IN  token' = st.token /\ result' = st.result
           /\ pos' = pos + d.w
    /\ pc' = pc
    /\ splitFrame

ReturnTokens ==
    /\ splitDone
    /\ result' = flushToken(token, result, keywords)
    /\ pc' = "returned"
    /\ UNCHANGED <<pos, token>>
    /\ splitFrame

NextSplit == ScanSeparator \/ ScanAccumulate \/ ReturnTokens

SpecSplit == InitSplit /\ [][NextSplit]_vars

-----------------------------------------------------------------------------
(* splitCodeContent: the switch of lines 202-211 and the segment built from it *)

segmentCase(part) ==
    IF part.IsKeyword THEN "keyword"
    ELSE IF isSymbol(part.Text) THEN "symbol"
    ELSE IF isString(part.Text) THEN "string"
    ELSE "default"

caseColor(c) ==
    CASE c = "keyword" -> PaletteContrastBg
      [] c = "symbol"  -> symbolColor
      [] c = "string"  -> stringColor
      [] OTHER         -> PaletteFg

\* a segment built from a fresh style instead of a copy of the span
styleSegmentFresh(sp, part) ==
    [sp EXCEPT !.Color = caseColor(segmentCase(part)), !.Content = part.Text,
               !.Interactive = FALSE, !.metadata = "none"]

\* lines 201-212: ns := span; ns.Color = ...; ns.Content = part.Text
styleSegment(sp, part) ==
    [sp EXCEPT !.Color = caseColor(segmentCase(part)), !.Content = part.Text]

splitCodeContent(sp) ==
    LET ps == splitByKeywords(sp.Content, codeKeywords)
    IN  [i \in 1..Len(ps) |-> styleSegment(sp, ps[i])]

-----------------------------------------------------------------------------
(* Spans: richtext.SpanStyle{Font, Size, Color, Content, Interactive, metadata} *)

\* a plain code-block span and an interactive one carrying a link's metadata
BaseStyles ==
    { [Font |-> [Typeface |-> monospace, Weight |-> "Normal"], Size |-> 16,
       Color |-> PaletteFg, Content |-> <<>>, Interactive |-> FALSE,
       metadata |-> "none"],
      [Font |-> [Typeface |-> monospace, Weight |-> "Bold"], Size |-> 20,
       Color |-> PaletteContrastBg, Content |-> <<>>, Interactive |-> TRUE,
       metadata |-> "url"] }

\* func, main, Println, ", "", a, \", every separator, and the invalid byte FF
SpanPieces ==
    { <<102, 117, 110, 99>>, <<109, 97, 105, 110>>,
      <<80, 114, 105, 110, 116, 108, 110>>,
      <<34>>, <<34, 34>>, <<97>>, <<92, 34>>,
      <<32>>, <<9>>, <<10>>, <<40>>, <<41>>, <<46>>, <<44>>, <<59>>, <<123>>,
      <<125>>, <<255>> }

CodeSpans ==
    { [b EXCEPT !.Content = c] :
        b \in BaseStyles, c \in PieceStrings(SpanPieces, MaxSpanPieces) }

-----------------------------------------------------------------------------
(* Specification SpecStyle: one call of splitCodeContent on a code span *)

InitStyle ==
    /\ pc = "call"
    /\ span \in CodeSpans
    /\ keywords = codeKeywords
    /\ content = <<>> /\ pos = 1 /\ token = <<>> /\ result = <<>>
    /\ parts = <<>> /\ segs = <<>>
    /\ spans = <<>> /\ next = 0 /\ styledSpans = <<>>

\* line 198: the call splitByKeywords(span.Content, keywords)
CallSplit ==
    /\ pc = "call"
    /\ content' = span.Content
    /\ pos' = 1 /\ token' = <<>> /\ result' = <<>>
    /\ pc' = "scan"
    /\ UNCHANGED <<keywords, span, parts, segs, spans, next, styledSpans>>

\* line 198: parts := the returned tokens
AssignParts ==
    /\ splitDone
    /\ result' = flushToken(token, result, keywords)
    /\ parts' = result'
    /\ pc' = "loop"
    /\ UNCHANGED <<content, keywords, pos, token, span, segs, spans, next, styledSpans>>

\* one iteration of the loop of lines 200-214 is enabled
inLoop == pc = "loop" /\ Len(segs) < Len(parts)

loopFrame ==
    UNCHANGED <<pc, content, keywords, pos, token, result, span, parts,
                spans, next, styledSpans>>

\* case part.IsKeyword
StyleKeyword ==
    /\ inLoop
    /\ LET part == parts[Len(segs) + 1]
       IN  /\ segmentCase(part) = "keyword"
           /\ segs' = Append(segs, styleSegment(span, part))
    /\ loopFrame

\* case isSymbol(part.Text)
StyleSymbol ==
    /\ inLoop
    /\ LET part == parts[Len(segs) + 1]
       IN  /\ segmentCase(part) = "symbol"
           /\ segs' = Append(segs, styleSegment(span, part))
    /\ loopFrame

\* case isString(part.Text)
StyleString ==
    /\ inLoop
    /\ LET part == parts[Len(segs) + 1]
       IN  /\ segmentCase(part) = "string"
           /\ segs' = Append(segs, styleSegment(span, part))
    /\ loopFrame

\* default
StyleDefault ==
    /\ inLoop
    /\ LET part == parts[Len(segs) + 1]
       IN  /\ segmentCase(part) = "default"
           /\ segs' = Append(segs, styleSegment(span, part))
    /\ loopFrame

ReturnSegments ==
    /\ pc = "loop" /\ Len(segs) = Len(parts)
    /\ pc' = "styled"
    /\ UNCHANGED <<content, keywords, pos, token, result, span, parts, segs,
                   spans, next, styledSpans>>

NextStyle ==
    \/ CallSplit \/ ScanSeparator \/ ScanAccumulate \/ AssignParts
    \/ StyleKeyword \/ StyleSymbol \/ StyleString \/ StyleDefault
    \/ ReturnSegments

SpecStyle == InitStyle /\ [][NextStyle]_vars

-----------------------------------------------------------------------------
(* Specification Spec: main's restyling pass, lines 133-142 *)

\* a span of running text, as the renderer emits outside code blocks
TextStyle ==
    [Font |-> [Typeface |-> "", Weight |-> "Normal"], Size |-> 16,
     Color |-> PaletteFg, Content |-> <<>>, Interactive |-> FALSE,
     metadata |-> "none"]

CodeStyle == [TextStyle EXCEPT !.Font.Typeface = monospace]

\* `func main() {`, `a`, `"a";`, and the invalid byte FF
MainContents ==
    { <<102, 117, 110, 99, 32, 109, 97, 105, 110, 40, 41, 32, 123>>,
      <<97>>, <<34, 97, 34, 59>>, <<255>> }

RenderedSpans ==
    { [b EXCEPT !.Content = c] : b \in {TextStyle, CodeStyle}, c \in MainContents }

RECURSIVE SpanLists(_)
SpanLists(n) ==
    IF n = 0 THEN {<<>>}
    ELSE LET prev == SpanLists(n - 1)
         IN  prev \cup {Append(l, sp) : l \in prev, sp \in RenderedSpans}

Init ==
    /\ pc = "restyle"
    /\ spans \in SpanLists(MaxSpans)
    /\ next = 0
    /\ styledSpans = <<>>
    /\ content = <<>> /\ keywords = codeKeywords /\ pos = 1
    /\ token = <<>> /\ result = <<>>
    /\ span = NoSpan /\ parts = <<>> /\ segs = <<>>

mainFrame == UNCHANGED <<content, keywords, pos, token, result, span, parts, segs, spans>>

\* lines 136-138
RestyleCode ==
    /\ pc = "restyle" /\ next < Len(spans)
    /\ spans[next + 1].Font.Typeface = monospace
    /\ styledSpans' = styledSpans \o splitCodeContent(spans[next + 1])
    /\ next' = next + 1
    /\ pc' = pc
    /\ mainFrame

\* lines 139-141
KeepSpan ==
    /\ pc = "restyle" /\ next < Len(spans)
    /\ spans[next + 1].Font.Typeface # monospace
    /\ styledSpans' = Append(styledSpans, spans[next + 1])
    /\ next' = next + 1
    /\ pc' = pc
    /\ mainFrame

\* line 146: the loop is over, the rich text is built from styledSpans
BuildRichText ==
    /\ pc = "restyle" /\ next = Len(spans)
    /\ pc' = "built"
    /\ UNCHANGED <<next, styledSpans>>
    /\ mainFrame

Next == RestyleCode \/ KeepSpan \/ BuildRichText

Spec == Init /\ [][Next]_vars

-----------------------------------------------------------------------------
(* Vocabulary of the properties *)

SeparatorChars == {32, 9, 10, 40, 41, 46, 44, 59, 123, 125}  \* space tab nl ( ) . , ; { }
SymbolChars == {40, 41, 44, 59, 123, 125}                    \* ( ) , ; { }
PlainSeparatorChars == {32, 9, 10, 46}                       \* space tab nl .

IsSeparatorText(t) == Len(t) = 1 /\ t[1] \in SeparatorChars
InList(t, l) == \E k \in 1..Len(l) : l[k] = t
QuoteCount(t) == Cardinality({j \in 1..Len(t) : t[j] = 34})
Quoted(t) == Len(t) >= 2 /\ t[1] = 34 /\ t[Len(t)] = 34

RECURSIVE ConcatText(_)
ConcatText(toks) ==
    IF toks = <<>> THEN <<>> ELSE Head(toks).Text \o ConcatText(Tail(toks))

RECURSIVE ConcatContent(_)
ConcatContent(sps) ==
    IF sps = <<>> THEN <<>> ELSE Head(sps).Content \o ConcatContent(Tail(sps))

\* number of maximal runs of non-separator runes in rs
RunCount(rs) ==
    Cardinality({j \in 1..Len(rs) :
        rs[j] \notin SeparatorChars /\ (j = 1 \/ rs[j-1] \in SeparatorChars)})

-----------------------------------------------------------------------------
(* Tokenizer properties, checked under SpecSplit *)

\* C1: the Text fields of the tokens splitByKeywords returns, concatenated in
\* output order, are exactly content.
C1_RoundTrip == pc = "returned" => ConcatText(result) = content

\* C2 (as stated): a token is flagged IsKeyword exactly when its Text equals
\* a member of the keyword list, and a flagged token gets the accent colour.
C2_ExactMatchFlagged ==
    pc = "returned" =>
        \A i \in 1..Len(result) :
            /\ result[i].IsKeyword <=> InList(result[i].Text, keywords)
            /\ result[i].IsKeyword =>
                   styleSegment(CodeStyle, result[i]).Color = PaletteContrastBg

\* C2 (amended): a token is flagged IsKeyword exactly when it is not a
\* separator token and its Text equals a member of the keyword list; a
\* separator token is never flagged, even when the list contains it; a
\* flagged token gets the accent colour th.Palette.ContrastBg.
C2_NonSeparatorMatchFlagged ==
    \A i \in 1..Len(result) :
        /\ result[i].IsKeyword <=>
               (~IsSeparatorText(result[i].Text) /\ InList(result[i].Text, keywords))
        /\ IsSeparatorText(result[i].Text) => ~result[i].IsKeyword
        /\ result[i].IsKeyword =>
               styleSegment(CodeStyle, result[i]).Color = PaletteContrastBg

C2_Witness ==
    /\ pc = "returned"
    /\ \E i \in 1..Len(result) : result[i].IsKeyword
    /\ \E j \in 1..Len(result) :
           InList(result[j].Text, keywords) /\ ~result[j].IsKeyword

\* C7: every token is one separator character or a non-empty run of
\* non-separator characters; no two non-separator tokens are adjacent; each
\* separator occurrence is its own token and each maximal run of
\* non-separators is one token; n separators alone give n tokens; the empty
\* input gives the empty sequence.
C7_TokenShape ==
    /\ \A i \in 1..Len(result) :
           LET t == result[i].Text
           IN  /\ t # <<>>
               /\ IsSeparatorText(t) \/ (\A j \in 1..Len(t) : t[j] \notin SeparatorChars)
               /\ (i > 1 /\ ~IsSeparatorText(t)) => IsSeparatorText(result[i-1].Text)
    /\ pc = "returned" =>
           LET rs   == Runes(content)
               seps == {i \in 1..Len(result) : IsSeparatorText(result[i].Text)}
               nsep == Cardinality({j \in 1..Len(rs) : rs[j] \in SeparatorChars})
           IN  /\ Cardinality(seps) = nsep
               /\ Len(result) - Cardinality(seps) = RunCount(rs)
               /\ nsep = Len(content) => Len(result) = Len(content)
               /\ content = <<>> => result = <<>>

C7_Witness ==
    /\ pc = "returned"
    /\ \E i \in 1..(Len(result) - 1) :
           IsSeparatorText(result[i].Text) /\ IsSeparatorText(result[i+1].Text)
    /\ \E j \in 1..Len(result) : Len(result[j].Text) > 1

-----------------------------------------------------------------------------
(* Stylist properties, checked under SpecStyle *)

\* C3: a token of length at least 2 that begins and ends with a double quote
\* gets the string colour NRGBA{0xFF,0x69,0xB4,0xFF}, whatever lies between.
C3_QuotedIsString ==
    \A i \in 1..Len(segs) :
        Quoted(parts[i].Text) => segs[i].Color = <<255, 105, 180, 255>>

C3_Witness ==
    /\ pc = "styled"
    /\ \E i \in 1..Len(segs) :
           /\ Quoted(parts[i].Text) /\ Len(parts[i].Text) > 2
           /\ QuoteCount(parts[i].Text) > 2

\* C4: a token holding exactly one double quote gets the default foreground
\* colour th.Palette.Fg, never the string colour.
C4_UnbalancedIsDefault ==
    \A i \in 1..Len(segs) :
        QuoteCount(parts[i].Text) = 1 => segs[i].Color = PaletteFg

\* C5: a single-character token drawn from ( ) , ; { } that is not flagged
\* as a keyword gets the symbol colour NRGBA{0xFF,0,0,0xFF}.
C5_SymbolIsRed ==
    \A i \in 1..Len(segs) :
        LET p == parts[i]
        IN  (Len(p.Text) = 1 /\ p.Text[1] \in SymbolChars /\ ~p.IsKeyword)
                => segs[i].Color = <<255, 0, 0, 255>>

C5_Witness ==
    /\ pc = "styled"
    /\ \E i \in 1..Len(segs) : parts[i].Text = <<125>>
    /\ \E i \in 1..Len(segs) : parts[i].Text = <<40>>

\* C6: splitCodeContent returns one segment per token of
\* splitByKeywords(span.Content), in order, segment i carrying token i's
\* Text; a segment differs from the span in Content and Color only; the
\* span is never modified.
C6_OneSegmentPerToken ==
    /\ [][span' = span]_vars
    /\ [](pc = "styled" =>
            LET toks == splitByKeywords(span.Content, codeKeywords)
            IN  /\ Len(segs) = Len(toks)
                /\ \A i \in 1..Len(segs) :
                       /\ segs[i].Content = toks[i].Text
                       /\ segs[i] = [span EXCEPT !.Content = segs[i].Content,
                                                 !.Color = segs[i].Color])

C6_Witness ==
    /\ pc = "styled"
    /\ Len(segs) >= 2
    /\ span.Interactive
    /\ \E i \in 1..Len(segs) : segs[i].Color # span.Color

\* the colour the checks pick when tried in the opposite order
reversedColor(part) ==
    IF isString(part.Text) THEN stringColor
    ELSE IF isSymbol(part.Text) THEN symbolColor
    ELSE IF part.IsKeyword THEN PaletteContrastBg
    ELSE PaletteFg

\* C8: with the keywords func, main, Println no token is at once flagged and
\* a symbol, flagged and a string, or a symbol and a string, so the colour
\* does not depend on the order of the checks.
C8_ClassesExclusive ==
    /\ \A i \in 1..Len(parts) :
           LET p == parts[i]
           IN  /\ ~(p.IsKeyword /\ isSymbol(p.Text))
               /\ ~(p.IsKeyword /\ isString(p.Text))
               /\ ~(isSymbol(p.Text) /\ isString(p.Text))
    /\ \A i \in 1..Len(segs) : segs[i].Color = reversedColor(parts[i])

C8_Witness ==
    /\ pc = "styled"
    /\ \E i \in 1..Len(segs) : isString(parts[i].Text)
    /\ \E i \in 1..Len(segs) : isSymbol(parts[i].Text)

\* C9: a separator token gets the symbol colour iff it is one of ( ) , ; { };
\* space, tab, newline and '.' get th.Palette.Fg; no non-separator token
\* gets the symbol colour.
C9_SeparatorColours ==
    \A i \in 1..Len(segs) :
        LET t == parts[i].Text
        IN  /\ IsSeparatorText(t) =>
                   /\ segs[i].Color = <<255, 0, 0, 255>> <=> t[1] \in SymbolChars
                   /\ t[1] \in PlainSeparatorChars => segs[i].Color = PaletteFg
            /\ ~IsSeparatorText(t) => segs[i].Color # <<255, 0, 0, 255>>

C9_Witness ==
    /\ pc = "styled"
    /\ \E i \in 1..Len(segs) : parts[i].Text = <<46>>
    /\ \E i \in 1..Len(segs) : ~IsSeparatorText(parts[i].Text)

-----------------------------------------------------------------------------
(* Restyling pass, checked under Spec *)

====
